---- MODULE Spec2Model ----
(***************************************************************************)
(* Review workflow client and live-notification connection manager of the  *)
(* TechFlow frontend.                                                      *)
(*                                                                         *)
(*  - useNotifications (lib/hooks/use-notifications.ts): the WebSocket     *)
(*    connection manager, its reconnect counter, timers and the bounded    *)
(*    notification buffer.                                                 *)
(*  - RecordsTable / RecordDetail / BatchActions / RejectionDialog and the *)
(*    records page: eligibility, selection and the reject / batch paths.   *)
(***************************************************************************)
EXTENDS Integers, Sequences, FiniteSets, TLC

VARIABLES
    \* ---- useNotifications ----
    opts,               \* options of the current render: enabled, autoReconnect, maxReconnectAttempts
    mounted,            \* "init" (effect not yet run) | "mounted" | "unmounted"
    sockets,            \* every WebSocket created so far: [readyState, opts of the connect closure]
    wsCurrent,          \* ws.current: 0 (null) or an index into sockets
    reconnectAttempts,  \* reconnectAttempts.current
    timers,             \* every setTimeout(connect, ...) made: [pending, opts of the closure]
    reconnectTimeout,   \* reconnectTimeout.current: 0 (null) or an index into timers
    intervals,          \* every setInterval made by onopen: TRUE while running
    heartbeatInterval,  \* heartbeatInterval.current: 0 (null) or an index into intervals
    isConnected,        \* React state isConnected
    notifications,      \* React state notifications (newest first)
    toastCalls,         \* number of toast() calls made by handleMessage
    lastToast,          \* arguments of the last toast() call
    stale,              \* query keys invalidated and not yet refetched
    \* ---- bookkeeping of the environment ----
    received,           \* non-pong notifications stored since the last clear, newest first
    recvCount,          \* messages delivered so far
    opens,              \* successful opens so far
    reruns,             \* effect re-runs so far
    op,                 \* the operation performed by the last step, and what it reported
    \* ---- review workflow (records page) ----
    serverStatus,       \* Record Store: status of every record
    filterStatus,       \* filters.status of the records page ("all" when unset)
    data,               \* data.records of useRecords: listed status per id, "none" when not listed
    tableSelected,      \* selectedIds of RecordsTable
    pageSelected,       \* selectedIds of the records page
    dialog,             \* "none" | "approve" | "reject" (BatchActions) | "single" (RejectionDialog)
    rejectRecord,       \* rejectRecord of RecordsTable: 0 (null) or an id
    reason,             \* reason of BatchActions
    singleReason,       \* reason of RejectionDialog
    inflight,           \* the mutation request in flight
    response,           \* the server's response on its way back
    stats,              \* data of useStats: cached count per status, NoStats when not loaded
    \* ---- Record Store: audit columns ----
    review,             \* reviewedAt / reviewedBy / reviewNotes of every record
    clock,              \* the store's clock
    \* ---- Status State Machine, Batch Coordinator, Notification Hub ----
    tx,                 \* applyTransition calls: what each was given, read and returned
    batch,              \* the applyBatch call in progress
    registry,           \* the hub's registry of live connections
    outbox,             \* outbound buffer of every connection
    eventSeq,           \* events fanned out so far (the id of the last one)
    \* ---- callers of the client library ----
    given,              \* the options object passed to useNotifications
    config,             \* the values the hook runs with
    call,               \* the last API call: method, response and outcome
    \* ---- export settings and service worker ----
    exportHook,         \* useExportMode: phase of the hook, its mode state and the last mode saved
    storage,            \* localStorage item "techflow-export-mode"
    swCache,            \* cache techflow-v1: version held per path, 0 when absent
    origin,             \* version of every path at the network
    swEvent             \* the last fetch event and what the page received for it

connVars == <<opts, mounted, sockets, wsCurrent, reconnectAttempts, timers,
              reconnectTimeout, intervals, heartbeatInterval, isConnected>>
msgVars  == <<notifications, toastCalls, lastToast, stale, received, recvCount>>
envVars  == <<opens, reruns>>
uiVars   == <<serverStatus, filterStatus, tableSelected, pageSelected,
              dialog, rejectRecord, reason, singleReason, inflight, response>>
cacheVars == <<data, stats>>
reviewVars == <<uiVars, cacheVars>>
storeVars == <<review, clock>>
hubVars  == <<registry, outbox, eventSeq>>
callVars == <<tx, batch>>
webVars  == <<exportHook, storage, swCache, origin, swEvent>>
libVars  == <<given, config, call, webVars>>
restVars == <<storeVars, hubVars, callVars, libVars>>
vars     == <<opts, mounted, sockets, wsCurrent, reconnectAttempts, timers,
              reconnectTimeout, intervals, heartbeatInterval, isConnected,
              notifications, toastCalls, lastToast, stale, received, recvCount,
              opens, reruns, op,
              serverStatus, filterStatus, data, tableSelected, pageSelected,
              dialog, rejectRecord, reason, singleReason, inflight, response,
              stats, review, clock, tx, batch, registry, outbox, eventSeq,
              given, config, call, exportHook, storage, swCache, origin, swEvent>>

----------------------------------------------------------------------------
(* Bounds of the exploration *)

MaxN == 2          \* largest maxReconnectAttempts explored
MaxOpens == 2      \* successful opens per behaviour
MaxReruns == 1     \* effect re-runs per behaviour
MaxMsgs == 3       \* messages delivered per behaviour (Spec)
MaxBufMsgs == 52   \* messages delivered per behaviour (SpecBuffer)
MaxIds == 2        \* distinct event ids (Spec)
MaxRecords == 2    \* records in the store (SpecReview)
MaxCalls == 2      \* applyTransition calls per behaviour (SpecStore)
MaxClock == 2      \* readings of the store's clock
MaxClients == 3    \* connections the hub can hold
OutboxCap == 1     \* events a connection's outbound buffer holds
MaxEvents == 3     \* events published per behaviour (SpecHub)
MaxMounts == 3     \* mounts of the records page per behaviour (SpecExport)
MaxChanges == 2    \* changes of content at the network per behaviour (SpecWorker)

----------------------------------------------------------------------------
(* Helpers *)

Min(a, b) == IF a < b THEN a ELSE b

\* String.prototype.startsWith on strings held as sequences of characters
StartsWith(s, p) == Len(s) >= Len(p) /\ SubSeq(s, 1, Len(p)) = p

\* Array.prototype.slice(0, n)
Slice0(s, n) == SubSeq(s, 1, Min(Len(s), n))

SetAt(seq, i, v) == [seq EXCEPT ![i] = v]

----------------------------------------------------------------------------
(* Event types, as character sequences *)

s_record_ == <<"r","e","c","o","r","d","_">>
s_batch_  == <<"b","a","t","c","h","_">>
s_approved == <<"a","p","p","r","o","v","e","d">>
s_rejected == <<"r","e","j","e","c","t","e","d">>
s_sync_complete == <<"s","y","n","c","_","c","o","m","p","l","e","t","e">>

t_pong == <<"p","o","n","g">>
t_error == <<"e","r","r","o","r">>
t_record_approved == s_record_ \o s_approved
t_record_rejected == s_record_ \o s_rejected
t_record_created  == s_record_ \o <<"c","r","e","a","t","e","d">>
t_record_edited   == s_record_ \o <<"e","d","i","t","e","d">>
t_batch_approved  == s_batch_ \o s_approved
t_batch_rejected  == s_batch_ \o s_rejected
t_batch_extracted == s_batch_ \o <<"e","x","t","r","a","c","t","e","d">>
t_export_complete == <<"e","x","p","o","r","t","_","c","o","m","p","l","e","t","e">>
t_sync_complete   == s_sync_complete
t_sheets_sync_complete == <<"s","h","e","e","t","s","_">> \o s_sync_complete

\* the types the server is specified to send, plus the control message
EventTypes == { t_pong, t_error, t_record_approved, t_record_rejected,
                t_batch_approved, t_export_complete, t_sync_complete,
                t_sheets_sync_complete }

----------------------------------------------------------------------------
(* useNotifications: options *)

BufferLimit == 50

OptionSpace == [enabled : BOOLEAN, autoReconnect : BOOLEAN,
                maxReconnectAttempts : 0..MaxN]

----------------------------------------------------------------------------
(* useNotifications: handleMessage *)

\* event.data as delivered by the socket: text that JSON.parse rejects, or a
\* parsed object with or without a string type field; record is the record id
\* carried in the event's data (0 when it names none)
Json(type, id) == [kind |-> "json", hasType |-> TRUE, type |-> type, id |-> id,
                   record |-> 0]
NoTypeJson(id) == [kind |-> "json", hasType |-> FALSE, type |-> <<>>, id |-> id,
                   record |-> 0]
InvalidJson    == [kind |-> "invalid", hasType |-> FALSE, type |-> <<>>, id |-> 0,
                   record |-> 0]

\* an event about one record
RecordEvent(type, id, rec) == [Json(type, id) EXCEPT !.record = rec]

Messages == { Json(t, i) : t \in EventTypes, i \in 1..MaxIds }
            \cup { NoTypeJson(1), InvalidJson }

\* variant of IsPong that lets pong through to the buffer
IsPong_never(m) == FALSE

\* if (notification.type === "pong") return;
IsPong(m) == m.hasType /\ m.type = t_pong

getToastVariant(m) ==
    IF m.hasType /\ (m.type = t_error \/ m.type = t_record_rejected)
    THEN "destructive" ELSE "default"

getToastTitle(m) ==
    IF ~m.hasType THEN "default"
    ELSE IF m.type = t_record_created THEN "newRecord"
    ELSE IF m.type = t_record_approved THEN "recordApproved"
    ELSE IF m.type = t_record_rejected THEN "recordRejected"
    ELSE IF m.type = t_batch_approved THEN "batchApproved"
    ELSE IF m.type = t_batch_rejected THEN "batchRejected"
    ELSE IF m.type = t_batch_extracted THEN "batchExtracted"
    ELSE IF m.type = t_export_complete THEN "exportComplete"
    ELSE IF m.type = t_sheets_sync_complete THEN "sheetsSynced"
    ELSE IF m.type = t_error THEN "error"
    ELSE "default"

\* variant of PushNotification that slices one entry too late
PushNotification_51(n, prev) == Slice0(<<n>> \o prev, BufferLimit + 1)

\* [notification, ...prev].slice(0, 50)
PushNotification(n, prev) == Slice0(<<n>> \o prev, BufferLimit)

\* the two invalidation branches; a missing type makes startsWith throw, and
\* the catch block swallows it before either branch runs
InvalidatedKeys(m) ==
    IF ~m.hasType THEN {}
    ELSE (IF StartsWith(m.type, s_record_) \/ StartsWith(m.type, s_batch_)
          THEN {"records", "stats"} ELSE {})
         \cup
         (IF m.type = t_export_complete \/ m.type = t_sheets_sync_complete
          THEN {"records"} ELSE {})

\* the status a record event reports
ReportedStatus(m) ==
    IF m.type = t_record_approved THEN "approved"
    ELSE IF m.type = t_record_rejected THEN "rejected"
    ELSE IF m.type = t_record_edited THEN "edited"
    ELSE "none"

\* variant of handleMessage that also merges the event's payload into the
\* cached record list
handleMessage_merge(m) ==
    IF m.kind = "invalid" \/ IsPong(m)
    THEN UNCHANGED <<notifications, toastCalls, lastToast, stale, received, data, stats>>
    ELSE /\ notifications' = PushNotification(m, notifications)
         /\ received' = <<m>> \o received
         /\ toastCalls' = toastCalls + 1
         /\ lastToast' = [title |-> getToastTitle(m), variant |-> getToastVariant(m)]
         /\ stale' = stale \cup InvalidatedKeys(m)
         /\ data' = IF m.record \in DOMAIN data /\ ReportedStatus(m) # "none"
                    THEN [data EXCEPT ![m.record] = ReportedStatus(m)]
                    ELSE data
         /\ UNCHANGED stats

\* the only calls on the query client are the invalidateQueries of the two
\* branches: no cached value is written
handleMessage(m) ==
    IF m.kind = "invalid" \/ IsPong(m)
    THEN UNCHANGED <<notifications, toastCalls, lastToast, stale, received, data, stats>>
    ELSE /\ notifications' = PushNotification(m, notifications)
         /\ received' = <<m>> \o received
         /\ toastCalls' = toastCalls + 1
         /\ lastToast' = [title |-> getToastTitle(m), variant |-> getToastVariant(m)]
         /\ stale' = stale \cup InvalidatedKeys(m)
         /\ UNCHANGED <<data, stats>>

----------------------------------------------------------------------------
(* useNotifications: connect, onopen, onclose, effect cleanup *)

\* variant of OnOpenAttempts that keeps the counter
OnOpenAttempts_kept(attempts) == attempts

\* reconnectAttempts.current = 0 in onopen
OnOpenAttempts(attempts) == 0

Socket(o) == [readyState |-> "CONNECTING", opts |-> o]

\* the two early returns of connect
CanConnect(o, attempts) ==
    o.enabled /\ ~(attempts >= o.maxReconnectAttempts)

ConnectSockets(o, attempts, socks) ==
    IF CanConnect(o, attempts) THEN Append(socks, Socket(o)) ELSE socks

ConnectCurrent(o, attempts, socks, cur) ==
    IF CanConnect(o, attempts) THEN Len(socks) + 1 ELSE cur

\* variant of ShouldReconnect that ignores the attempts already made
ShouldReconnect_unbounded(o, attempts) == o.autoReconnect

\* the reconnect condition of onclose
ShouldReconnect(o, attempts) ==
    o.autoReconnect /\ attempts < o.maxReconnectAttempts

\* WebSocket.close(): a connecting or open socket starts closing, its close
\* event is delivered later; closing or closed sockets are left alone
CloseSocket(socks, cur) ==
    IF cur # 0 /\ socks[cur].readyState \in {"CONNECTING", "OPEN"}
    THEN SetAt(socks, cur, [socks[cur] EXCEPT !.readyState = "CLOSING"])
    ELSE socks

\* clearTimeout / clearInterval through a ref that is not reset to null
ClearTimer(ts, ref) ==
    IF ref # 0 THEN SetAt(ts, ref, [ts[ref] EXCEPT !.pending = FALSE]) ELSE ts

ClearInterval(is, ref) ==
    IF ref # 0 THEN SetAt(is, ref, FALSE) ELSE is

Live(s) == s.readyState \in {"CONNECTING", "OPEN"}

LiveSockets == { i \in 1..Len(sockets) : Live(sockets[i]) }

PendingTimers == { i \in 1..Len(timers) : timers[i].pending }

RunningIntervals == { i \in 1..Len(intervals) : intervals[i] }

----------------------------------------------------------------------------
(* Records: statuses and the Record Store *)

PENDING  == "pending"
APPROVED == "approved"
REJECTED == "rejected"
EDITED   == "edited"
EXPORTED == "exported"

ExtractionStatus == {PENDING, APPROVED, REJECTED, EDITED, EXPORTED}

RecordIds == 1..MaxRecords

\* eligible for review: status is pending or edited (glossary, section 4.1)
Reviewable == {PENDING, EDITED}

\* variant of TransitionTo that lets an approved record be approved again
TransitionTo_reapprove(status, action) ==
    IF action = "approve" /\ status \in Reviewable \cup {APPROVED} THEN APPROVED
    ELSE IF action = "reject" /\ status \in Reviewable THEN REJECTED
    ELSE IF action = "edit" /\ status \in Reviewable THEN EDITED
    ELSE IF action = "export" /\ status = APPROVED THEN EXPORTED
    ELSE "InvalidTransition"

\* the transition table of section 4.1: the status an action leads to, or
\* "InvalidTransition"
TransitionTo(status, action) ==
    IF action = "approve" /\ status \in Reviewable THEN APPROVED
    ELSE IF action = "reject" /\ status \in Reviewable THEN REJECTED
    ELSE IF action = "edit" /\ status \in Reviewable THEN EDITED
    ELSE IF action = "export" /\ status = APPROVED THEN EXPORTED
    ELSE "InvalidTransition"

\* the audit columns of a record that was never reviewed (0 stands for null)
NoReview == [reviewedAt |-> 0, reviewedBy |-> "none", reviewNotes |-> <<>>]

\* reviewedBy / reviewedAt / reviewNotes are set on approve and on reject
\* (section 3); edit and export leave them as they are
ReviewAfter(rv, action, actor, payload, now) ==
    IF action \in {"approve", "reject"}
    THEN [reviewedAt |-> now, reviewedBy |-> actor, reviewNotes |-> payload]
    ELSE rv

\* the identity the HTTP API records: ApproveRequest and RejectRequest carry
\* no reviewer
ApiActor == "api"

\* the statistics query before its first answer
NoStats == [st \in ExtractionStatus |-> -1]

\* GET /api/v1/stats: by_status
Stats(store) ==
    [st \in ExtractionStatus |-> Cardinality({ id \in RecordIds : store[id] = st })]

\* no record listed: the list is still loading, or it is empty
NotListed == [id \in RecordIds |-> "none"]

\* GET /api/v1/records with the page's status filter
ListRecords(store, filter) ==
    [id \in RecordIds |->
        IF filter = "all" \/ store[id] = filter THEN store[id] ELSE "none"]

----------------------------------------------------------------------------
(* Rejection reasons, as character sequences *)

Whitespace == {" ", "\t"}

RECURSIVE TrimStart(_)
TrimStart(s) ==
    IF s # <<>> /\ Head(s) \in Whitespace THEN TrimStart(Tail(s)) ELSE s

RECURSIVE TrimEnd(_)
TrimEnd(s) ==
    IF s # <<>> /\ s[Len(s)] \in Whitespace
    THEN TrimEnd(SubSeq(s, 1, Len(s) - 1)) ELSE s

\* String.prototype.trim
Trim(s) == TrimEnd(TrimStart(s))

ReasonInputs == { <<>>, <<"\t", " ">>, <<" ", "a">> }

\* the reason another reviewer gives
OtherReason == <<" ", "a">>

\* variant of the guard of handleReject that does not trim
SingleReasonMissing_notrim(r) == r = <<>>

\* if (!reason.trim()) in RejectionDialog.handleReject
SingleReasonMissing(r) == Trim(r) = <<>>

\* if (!reason.trim()) in BatchActions.handleBatchReject
BatchReasonMissing(r) == Trim(r) = <<>>

----------------------------------------------------------------------------
(* Eligibility in the records table, the record detail view and the toolbar *)

\* the condition around the approve / reject / edit buttons of a table row
TableOffersReview(status) == status = PENDING \/ status = EDITED

\* RecordDetail.canReview
canReview(status) == status = PENDING \/ status = EDITED

\* variant of eligibleForApprove that forgets edited records
eligibleForApprove_pendingOnly(sel, recs) ==
    { id \in sel : recs[id] # "none" /\ recs[id] = PENDING }

\* selectedIds.filter(...): the record is in the loaded list and is pending or edited
eligibleForApprove(sel, recs) ==
    { id \in sel : recs[id] # "none" /\ (recs[id] = PENDING \/ recs[id] = EDITED) }

eligibleForReject(sel, recs) ==
    { id \in sel : recs[id] # "none" /\ (recs[id] = PENDING \/ recs[id] = EDITED) }

----------------------------------------------------------------------------
(* Requests and responses *)

NoRequest == [kind |-> "none", ids |-> {}, reason |-> <<>>]

NoResponse == [kind |-> "none", ok |-> TRUE, okIds |-> {}, errorCount |-> 0,
               error |-> "none"]

\* applyBatch of section 4.2: the ids eligible when the batch executes
BatchEligible(store, ids) == { id \in ids : store[id] \in Reviewable }

BatchStore(store, ids, action) ==
    [id \in RecordIds |->
        IF id \in BatchEligible(store, ids) THEN TransitionTo(store[id], action)
        ELSE store[id]]

----------------------------------------------------------------------------
(* useNotifications: the options object and the values the hook runs with *)

\* a property the caller left out (undefined)
Unset == -1

HeartbeatMs == 30000
DefaultReconnectInterval == 3000
DefaultMaxReconnectAttempts == 5

NoOptions == [heartbeatInterval |-> Unset, reconnectInterval |-> Unset,
              maxReconnectAttempts |-> Unset, bufferSize |-> Unset]

\* the hook has not rendered yet
Unresolved == [heartbeatInterval |-> 0, reconnectInterval |-> 0,
               maxReconnectAttempts |-> 0, bufferSize |-> 0]

CallerOptions == [heartbeatInterval : {Unset, 10000, 30000},
                  reconnectInterval : {Unset, 1000, 3000},
                  maxReconnectAttempts : {Unset, 3, 10},
                  bufferSize : {Unset, 10, 100}]

\* the options NotificationProvider passes
ProviderOptions == [NoOptions EXCEPT !.reconnectInterval = 3000,
                                     !.maxReconnectAttempts = 10]

\* the destructuring defaults of the hook; the heartbeat period and the
\* buffer length are literals in onopen and handleMessage, whatever is passed
ResolveOptions(o) ==
    [heartbeatInterval |-> HeartbeatMs,
     reconnectInterval |-> IF o.reconnectInterval = Unset
                           THEN DefaultReconnectInterval ELSE o.reconnectInterval,
     maxReconnectAttempts |-> IF o.maxReconnectAttempts = Unset
                              THEN DefaultMaxReconnectAttempts
                              ELSE o.maxReconnectAttempts,
     bufferSize |-> BufferLimit]

----------------------------------------------------------------------------
(* API client: handleResponse *)

JsonNull == [kind |-> "null", text |-> <<>>]

Digits == {"0", "1", "2"}

b_null   == <<"n", "u", "l", "l">>
b_object == <<"{", "\"", "d", "\"", ":", "1", "}">>
b_cut    == <<"{", "\"", "d", "\"", ":">>
b_html   == <<"<", "h", ">">>

\* the members of an object: none, or one "key":digit pair
WellFormedMembers(inner) ==
    \/ inner = <<>>
    \/ /\ Len(inner) = 5
       /\ inner[1] = "\"" /\ inner[3] = "\"" /\ inner[4] = ":"
       /\ inner[5] \in Digits

\* Response.json(): the parsed value, or a rejection
ParseJson(text) ==
    LET t == Trim(text)
    IN  IF t = b_null THEN [ok |-> TRUE, value |-> JsonNull]
        ELSE IF Len(t) = 1 /\ t[1] \in Digits
        THEN [ok |-> TRUE, value |-> [kind |-> "number", text |-> t]]
        ELSE IF /\ Len(t) >= 2 /\ t[1] = "{" /\ t[Len(t)] = "}"
                /\ WellFormedMembers(SubSeq(t, 2, Len(t) - 1))
        THEN [ok |-> TRUE, value |-> [kind |-> "object", text |-> SubSeq(t, 2, Len(t) - 1)]]
        ELSE [ok |-> FALSE, value |-> JsonNull]

\* what fetch resolves with; status 0 stands for a fetch that rejects
Responses == [status : {200, 204, 400, 404, 422, 500}, statusText : {"", "Error"},
              body : { <<>>, b_null, b_object, b_cut, b_html, <<" ", "2">> },
              contentType : {"application/json", "text/csv", "none"},
              attachment : BOOLEAN]

NetworkFailure == [status |-> 0, statusText |-> "", body |-> <<>>,
                   contentType |-> "none", attachment |-> FALSE]

\* Response.ok
Ok(resp) == resp.status >= 200 /\ resp.status <= 299

Thrown(name, status, statusText, d) ==
    [kind |-> "throw", error |-> name, status |-> status, statusText |-> statusText,
     data |-> d]

Returned(kind, text) ==
    [kind |-> "return", error |-> "none", status |-> 0, statusText |-> "",
     data |-> [kind |-> kind, text |-> text]]

\* variant of handleResponse without the try / catch around response.json()
handleResponse_noCatch(resp) ==
    IF ~Ok(resp)
    THEN IF ParseJson(resp.body).ok
         THEN Thrown("ApiError", resp.status, resp.statusText, ParseJson(resp.body).value)
         ELSE Thrown("SyntaxError", 0, "", JsonNull)
    ELSE IF resp.attachment \/ resp.contentType = "text/csv"
    THEN Returned("blob", resp.body)
    ELSE IF resp.contentType = "application/json"
    THEN IF ParseJson(resp.body).ok
         THEN [Returned("json", <<>>) EXCEPT !.data = ParseJson(resp.body).value]
         ELSE Thrown("SyntaxError", 0, "", JsonNull)
    ELSE Returned("text", resp.body)

handleResponse(resp) ==
    IF ~Ok(resp)
    THEN Thrown("ApiError", resp.status, resp.statusText,
                IF ParseJson(resp.body).ok THEN ParseJson(resp.body).value ELSE JsonNull)
    ELSE IF resp.attachment \/ resp.contentType = "text/csv"
    THEN Returned("blob", resp.body)
    ELSE IF resp.contentType = "application/json"
    THEN IF ParseJson(resp.body).ok
         THEN [Returned("json", <<>>) EXCEPT !.data = ParseJson(resp.body).value]
         ELSE Thrown("SyntaxError", 0, "", JsonNull)
    ELSE Returned("text", resp.body)

\* fetch(...) then handleResponse: a rejected fetch rejects the call
ApiCall(method, resp) ==
    [method |-> method, response |-> resp,
     outcome |-> IF resp = NetworkFailure THEN Thrown("TypeError", 0, "", JsonNull)
                 ELSE handleResponse(resp)]

NoApiCall == [method |-> "none", response |-> NetworkFailure,
              outcome |-> Returned("none", <<>>)]

----------------------------------------------------------------------------
(* useExportMode: the mode state and its localStorage item *)

ExportModes == {"manual", "auto-excel", "auto-sheets"}

\* getItem returns null
NoItem == [present |-> FALSE, value |-> ""]

\* setItem(STORAGE_KEY, m) when nothing is stored
StoredItem_lost(m) == NoItem

\* localStorage.setItem(STORAGE_KEY, m)
StoredItem(m) == [present |-> TRUE, value |-> m]

\* variant of LoadMode that takes whatever is stored
LoadMode_unchecked(item, mode) ==
    IF item.present /\ item.value # "" THEN item.value ELSE mode

\* the mount effect: stored && [...].includes(stored) ? setMode(stored)
LoadMode(item, mode) ==
    IF item.present /\ item.value # "" /\ item.value \in ExportModes
    THEN item.value ELSE mode

----------------------------------------------------------------------------
(* Service worker (public/sw.js): the fetch listener *)

s_api == <<"/", "a", "p", "i", "/">>

p_root    == <<"/">>
OFFLINE_URL == <<"/", "o", "f", "f">>
p_records == s_api \o <<"v", "1", "/", "r">>
p_apix    == <<"/", "a", "p", "i", "x">>

Paths == {p_root, OFFLINE_URL, p_records, p_apix}

\* the precached assets that are among the paths explored
PRECACHE_ASSETS == {p_root}

Requests == [method : {"GET", "POST"}, path : Paths, mode : {"navigate", "cors"},
             protocol : {"http:", "ws:"}]

RECURSIVE SumOver(_, _)
SumOver(f, S) ==
    IF S = {} THEN 0
    ELSE LET x == CHOOSE y \in S : TRUE IN f[x] + SumOver(f, S \ {x})

\* variant of Skips without the /api/ test
Skips_noApi(req) ==
    \/ req.method # "GET"
    \/ req.protocol \in {"ws:", "wss:"}

\* the three early returns of the listener: respondWith is not called
Skips(req) ==
    \/ req.method # "GET"
    \/ StartsWith(req.path, s_api)
    \/ req.protocol \in {"ws:", "wss:"}

\* what fetch(request) gives: the current version at the network, or nothing
FromNetwork(org, req, net) ==
    IF net = "fail" THEN [source |-> "error", version |-> 0]
    ELSE [source |-> "network", version |-> org[req.path]]

FromCache(c, path) ==
    IF c[path] = 0 THEN [source |-> "error", version |-> 0]
    ELSE [source |-> "cache", version |-> c[path]]

\* what the page receives for the request
Served(c, org, req, net) ==
    IF Skips(req) THEN FromNetwork(org, req, net)
    ELSE IF req.mode = "navigate"
    THEN IF net = "fail" THEN FromCache(c, OFFLINE_URL) ELSE FromNetwork(org, req, net)
    ELSE IF c[req.path] # 0 THEN FromCache(c, req.path)
    ELSE FromNetwork(org, req, net)

\* the cache after the listener and its background fetch have run
CacheAfter(c, org, req, net) ==
    IF ~Skips(req) /\ req.mode # "navigate" /\ net = "ok"
    THEN [c EXCEPT ![req.path] = org[req.path]]
    ELSE c

NoEvent == [request |-> [method |-> "none", path |-> <<>>, mode |-> "none", protocol |-> "none"],
            net |-> "none", handled |-> FALSE, source |-> "none", version |-> 0]

NoHook == [phase |-> "unmounted", mode |-> "manual", saved |-> "", mounts |-> 0]

\* the worker is installed: cache.addAll(PRECACHE_ASSETS) has run
InitWorker ==
    /\ swCache = [p \in Paths |-> IF p \in PRECACHE_ASSETS THEN 1 ELSE 0]
    /\ origin = [p \in Paths |-> 1]
    /\ swEvent = NoEvent

InitLib ==
    /\ given = NoOptions
    /\ config = Unresolved
    /\ call = NoApiCall
    /\ exportHook = NoHook
    /\ storage = NoItem
    /\ InitWorker

----------------------------------------------------------------------------
(* Status State Machine (section 4.1) *)

UnknownId == 0

Actions == {"approve", "reject", "edit", "export"}

\* the input checks of applyTransition, for a record that exists
Validate(status, action, payload) ==
    IF action = "reject" /\ Trim(payload) = <<>> THEN "ValidationFailed"
    ELSE IF TransitionTo(status, action) = "InvalidTransition" THEN "InvalidTransition"
    ELSE "none"

\* variant of applyTransition that stamps the review fields before it has
\* validated the action
applyTransition_stampFirst(status, rv, action, actor, payload, expected, now) ==
    LET e == IF status # expected THEN "Conflict" ELSE Validate(status, action, payload)
    IN  [error  |-> e,
         status |-> IF e = "none" THEN TransitionTo(status, action) ELSE status,
         review |-> ReviewAfter(rv, action, actor, payload, now)]

\* applyTransition on a record that exists: the conditional write of section 5
\* (update only if the current status is the expected pre-state), the input
\* checks, then the effect on status and review fields
applyTransition(status, rv, action, actor, payload, expected, now) ==
    LET e == IF status # expected THEN "Conflict" ELSE Validate(status, action, payload)
    IN  [error  |-> e,
         status |-> IF e = "none" THEN TransitionTo(status, action) ELSE status,
         review |-> IF e = "none" THEN ReviewAfter(rv, action, actor, payload, now)
                    ELSE rv]

\* the DomainEvent type of a transition
EventType(action) ==
    IF action = "approve" THEN t_record_approved
    ELSE IF action = "reject" THEN t_record_rejected
    ELSE IF action = "edit" THEN t_record_edited
    ELSE t_export_complete

----------------------------------------------------------------------------
(* Notification Hub (section 4.4) *)

Clients == 1..MaxClients

Full(q) == Len(q) >= OutboxCap

\* the connections for which a send would block
DroppedFor(box, reg) == { c \in reg : Full(box[c]) }

\* variant of Publish that stops at the first connection whose buffer is full
Publish_stalls(box, reg, e) ==
    [c \in Clients |->
        IF c \in reg /\ \A b \in reg : b <= c => ~Full(box[b])
        THEN Append(box[c], e) ELSE box[c]]

\* publish(event): a non-blocking send to every registered connection; the
\* event is dropped for a connection whose buffer is full
Publish(box, reg, e) ==
    [c \in Clients |->
        IF c \in reg /\ ~Full(box[c]) THEN Append(box[c], e) ELSE box[c]]

\* event ids are consumed only when there is a connection to send to
NextSeq(seq, reg, k) == IF reg = {} THEN seq ELSE seq + k

\* variant of Persisted that undoes the write when a delivery was dropped
Persisted_rollback(written, before, dropped) ==
    IF dropped # {} THEN [before EXCEPT !.error = "DeliveryDropped"] ELSE written

\* what the store holds and the caller gets once the event has been handed to
\* the hub: the write is not transactional with the notification
Persisted(written, before, dropped) == written

----------------------------------------------------------------------------
\* the hook after its first render, before the effect has run
InitConn ==
    /\ mounted = "init"
    /\ sockets = <<>>
    /\ wsCurrent = 0
    /\ reconnectAttempts = 0
    /\ timers = <<>>
    /\ reconnectTimeout = 0
    /\ intervals = <<>>
    /\ heartbeatInterval = 0
    /\ isConnected = FALSE
    /\ notifications = <<>>
    /\ toastCalls = 0
    /\ lastToast = [title |-> "none", variant |-> "none"]
    /\ stale = {}
    /\ received = <<>>
    /\ recvCount = 0
    /\ opens = 0
    /\ reruns = 0
    /\ op = <<"init", 0>>

\* the records page after its first render, the list still loading
InitPage ==
    /\ data = NotListed
    /\ tableSelected = {}
    /\ pageSelected = {}
    /\ dialog = "none"
    /\ rejectRecord = 0
    /\ reason = <<>>
    /\ singleReason = <<>>
    /\ inflight = NoRequest
    /\ response = NoResponse
    /\ stats = NoStats

\* the audit columns a record of the given status carries when the store's
\* clock reads now
ReviewOf(status, now) ==
    IF status \in {APPROVED, EXPORTED}
    THEN ReviewAfter(NoReview, "approve", ApiActor, <<>>, now)
    ELSE IF status = REJECTED
    THEN ReviewAfter(NoReview, "reject", ApiActor, OtherReason, now)
    ELSE NoReview

InitStore ==
    /\ clock = 1
    /\ review = [id \in RecordIds |-> ReviewOf(serverStatus[id], clock)]

NoCall == [phase |-> "idle", id |-> UnknownId, action |-> "none", payload |-> <<>>,
           expected |-> "none", rivals |-> {}, dirty |-> FALSE, error |-> "none"]

NoBatch == [phase |-> "idle", action |-> "none", payload |-> <<>>, ids |-> {},
            eligible |-> {}, todo |-> {}, okIds |-> {}, errors |-> {},
            okCount |-> 0, errorCount |-> 0, error |-> "none"]

\* the server with nothing in progress and the given connections registered
InitServer(reg) ==
    /\ tx = [r \in 1..MaxCalls |-> NoCall]
    /\ batch = NoBatch
    /\ registry = reg
    /\ outbox = [c \in Clients |-> <<>>]
    /\ eventSeq = 0

Init ==
    /\ opts \in OptionSpace
    /\ InitConn
    /\ serverStatus = [id \in RecordIds |-> PENDING]
    /\ filterStatus = "all"
    /\ InitPage
    /\ InitStore
    /\ InitServer({})
    /\ InitLib

\* useEffect(() => { connect(); ... }, [connect]) on mount
Mount ==
    /\ mounted = "init"
    /\ mounted' = "mounted"
    /\ sockets' = ConnectSockets(opts, reconnectAttempts, sockets)
    /\ wsCurrent' = ConnectCurrent(opts, reconnectAttempts, sockets, wsCurrent)
    /\ op' = <<"mount", 0>>
    /\ UNCHANGED <<opts, reconnectAttempts, timers, reconnectTimeout, intervals,
                   heartbeatInterval, isConnected>>
    /\ UNCHANGED <<msgVars, envVars, reviewVars, restVars>>

\* ws.onopen of socket s
SocketOpen(s) ==
    /\ s \in 1..Len(sockets)
    /\ sockets[s].readyState = "CONNECTING"
    /\ opens < MaxOpens
    /\ opens' = opens + 1
    /\ sockets' = SetAt(sockets, s, [sockets[s] EXCEPT !.readyState = "OPEN"])
    /\ isConnected' = TRUE
    /\ reconnectAttempts' = OnOpenAttempts(reconnectAttempts)
    /\ intervals' = Append(intervals, TRUE)
    /\ heartbeatInterval' = Len(intervals) + 1
    /\ op' = <<"open", s>>
    /\ UNCHANGED <<opts, mounted, wsCurrent, timers, reconnectTimeout, reruns>>
    /\ UNCHANGED <<msgVars, reviewVars, restVars>>

\* ws.onclose of socket s (after an error, a server close or ws.close())
SocketClose(s) ==
    /\ s \in 1..Len(sockets)
    /\ sockets[s].readyState \in {"CONNECTING", "OPEN", "CLOSING"}
    /\ sockets' = SetAt(sockets, s, [sockets[s] EXCEPT !.readyState = "CLOSED"])
    /\ isConnected' = FALSE
    /\ intervals' = ClearInterval(intervals, heartbeatInterval)
    /\ heartbeatInterval' = 0
    /\ IF ShouldReconnect(sockets[s].opts, reconnectAttempts)
       THEN /\ reconnectAttempts' = reconnectAttempts + 1
            /\ timers' = Append(timers, [pending |-> TRUE, opts |-> sockets[s].opts])
            /\ reconnectTimeout' = Len(timers) + 1
       ELSE UNCHANGED <<reconnectAttempts, timers, reconnectTimeout>>
    /\ op' = <<"close", s>>
    /\ UNCHANGED <<opts, mounted, wsCurrent>>
    /\ UNCHANGED <<msgVars, envVars, reviewVars, restVars>>

\* the reconnect timer t fires and calls the connect it was given
TimerFire(t) ==
    /\ t \in PendingTimers
    /\ timers' = SetAt(timers, t, [timers[t] EXCEPT !.pending = FALSE])
    /\ sockets' = ConnectSockets(timers[t].opts, reconnectAttempts, sockets)
    /\ wsCurrent' = ConnectCurrent(timers[t].opts, reconnectAttempts, sockets, wsCurrent)
    /\ op' = <<"fire", t>>
    /\ UNCHANGED <<opts, mounted, reconnectAttempts, reconnectTimeout, intervals,
                   heartbeatInterval, isConnected>>
    /\ UNCHANGED <<msgVars, envVars, reviewVars, restVars>>

\* connect changes identity (new options, or a new toast / queryClient / t):
\* the effect cleanup runs, then the effect runs the new connect
EffectRerun(o) ==
    /\ mounted = "mounted"
    /\ reruns < MaxReruns
    /\ reruns' = reruns + 1
    /\ opts' = o
    /\ timers' = ClearTimer(timers, reconnectTimeout)
    /\ intervals' = ClearInterval(intervals, heartbeatInterval)
    /\ sockets' = ConnectSockets(o, reconnectAttempts, CloseSocket(sockets, wsCurrent))
    /\ wsCurrent' = ConnectCurrent(o, reconnectAttempts, sockets, wsCurrent)
    /\ op' = <<"rerun", 0>>
    /\ UNCHANGED <<mounted, reconnectAttempts, reconnectTimeout, heartbeatInterval,
                   isConnected, opens>>
    /\ UNCHANGED <<msgVars, reviewVars, restVars>>

\* the component unmounts: the effect cleanup runs
Unmount ==
    /\ mounted = "mounted"
    /\ mounted' = "unmounted"
    /\ timers' = ClearTimer(timers, reconnectTimeout)
    /\ intervals' = ClearInterval(intervals, heartbeatInterval)
    /\ sockets' = CloseSocket(sockets, wsCurrent)
    /\ op' = <<"unmount", 0>>
    /\ UNCHANGED <<opts, wsCurrent, reconnectAttempts, reconnectTimeout,
                   heartbeatInterval, isConnected>>
    /\ UNCHANGED <<msgVars, envVars, reviewVars, restVars>>

\* a heartbeat interval fires: sendMessage({type: "ping"}) sends on ws.current
\* when it is open, and is a no-op otherwise
HeartbeatTick(i) ==
    /\ i \in RunningIntervals
    /\ op' = <<"tick", IF wsCurrent # 0 /\ sockets[wsCurrent].readyState = "OPEN"
                       THEN wsCurrent ELSE 0>>
    /\ op' # op
    /\ UNCHANGED <<connVars, msgVars, envVars, reviewVars, restVars>>

\* ws.onmessage of socket s delivers m
Receive(s, m, bound) ==
    /\ s \in 1..Len(sockets)
    /\ sockets[s].readyState = "OPEN"
    /\ recvCount < bound
    /\ recvCount' = recvCount + 1
    /\ handleMessage(m)
    /\ op' = <<"recv", m>>
    /\ UNCHANGED <<connVars, envVars, uiVars, restVars>>

clearNotifications ==
    /\ notifications # <<>>
    /\ notifications' = <<>>
    /\ received' = <<>>
    /\ op' = <<"clear", 0>>
    /\ UNCHANGED <<toastCalls, lastToast, stale, recvCount>>
    /\ UNCHANGED <<connVars, envVars, reviewVars, restVars>>

\* an invalidated query is refetched: the queries that hold data get the
\* server's current answer
RefetchQuery(k) ==
    /\ k \in stale
    /\ stale' = stale \ {k}
    /\ data' = IF k = "records" /\ data # NotListed
               THEN ListRecords(serverStatus, filterStatus) ELSE data
    /\ stats' = IF k = "stats" /\ stats # NoStats THEN Stats(serverStatus) ELSE stats
    /\ op' = <<"refetch", k>>
    /\ UNCHANGED <<notifications, toastCalls, lastToast, received, recvCount>>
    /\ UNCHANGED <<connVars, envVars, uiVars, restVars>>

\* the connection manager: socket events, timers and effect runs
Next ==
    \/ Mount
    \/ \E s \in 1..Len(sockets) : SocketOpen(s)
    \/ \E s \in 1..Len(sockets) : SocketClose(s)
    \/ \E t \in 1..Len(timers) : TimerFire(t)
    \/ \E o \in OptionSpace : EffectRerun(o)
    \/ Unmount
    \/ \E i \in 1..Len(intervals) : HeartbeatTick(i)

Spec == Init /\ [][Next]_vars

\* message handling on an open connection, any message in any order
NextMsg ==
    \/ Mount
    \/ \E s \in 1..Len(sockets) : SocketOpen(s)
    \/ \E s \in 1..Len(sockets) : \E m \in Messages : Receive(s, m, MaxMsgs)
    \/ clearNotifications
    \/ \E k \in {"records", "stats"} : RefetchQuery(k)

SpecMsg == Init /\ [][NextMsg]_vars

\* the notification buffer under a long run of events: the server sends
\* consecutively numbered events of rotating types, interleaved with pongs
ScriptType(n) ==
    IF n % 3 = 0 THEN t_record_approved
    ELSE IF n % 3 = 1 THEN t_batch_approved ELSE t_error

NextBuffer ==
    \/ Mount
    \/ \E s \in 1..Len(sockets) : SocketOpen(s)
    \/ \E s \in 1..Len(sockets) :
          Receive(s, Json(ScriptType(toastCalls + 1), toastCalls + 1), MaxBufMsgs)
    \/ \E s \in 1..Len(sockets) : Receive(s, Json(t_pong, 0), MaxBufMsgs)
    \/ clearNotifications

SpecBuffer == Init /\ [][NextBuffer]_vars

----------------------------------------------------------------------------
(* Records page: RecordsTable, BatchActions, RejectionDialog *)

notifVars == <<opts, connVars, msgVars, envVars>>

\* useRecords(filters) delivers a fresh list
FetchRecords ==
    /\ data' = ListRecords(serverStatus, filterStatus)
    /\ data' # data
    /\ op' = <<"fetch", 0>>
    /\ UNCHANGED <<serverStatus, filterStatus, tableSelected, pageSelected, dialog,
                   rejectRecord, reason, singleReason, inflight, response>>
    /\ UNCHANGED <<notifVars, stats, restVars>>

\* useStats() delivers the statistics
FetchStats ==
    /\ stats' = Stats(serverStatus)
    /\ stats' # stats
    /\ op' = <<"fetchStats", 0>>
    /\ UNCHANGED <<uiVars, data>>
    /\ UNCHANGED <<notifVars, restVars>>

\* RecordsTable.handleSelectOne
handleSelectOne(id, checked) ==
    /\ dialog = "none"
    /\ data[id] # "none"
    /\ tableSelected' = IF checked THEN tableSelected \cup {id} ELSE tableSelected \ {id}
    /\ pageSelected' = tableSelected'
    /\ op' = <<"selectOne", id>>
    /\ UNCHANGED <<serverStatus, filterStatus, data, dialog, rejectRecord, reason,
                   singleReason, inflight, response>>
    /\ UNCHANGED <<notifVars, stats, restVars>>

\* RecordsTable.handleSelectAll
handleSelectAll(checked) ==
    /\ dialog = "none"
    /\ \E id \in RecordIds : data[id] # "none"
    /\ tableSelected' = IF checked THEN { id \in RecordIds : data[id] # "none" } ELSE {}
    /\ pageSelected' = tableSelected'
    /\ op' = <<"selectAll", checked>>
    /\ UNCHANGED <<serverStatus, filterStatus, data, dialog, rejectRecord, reason,
                   singleReason, inflight, response>>
    /\ UNCHANGED <<notifVars, stats, restVars>>

\* another reviewer (or the export job) moves a record through the state machine
OtherActor(id, action) ==
    /\ TransitionTo(serverStatus[id], action) # "InvalidTransition"
    /\ serverStatus' = [serverStatus EXCEPT ![id] = TransitionTo(serverStatus[id], action)]
    /\ serverStatus' # serverStatus
    /\ review' = [review EXCEPT ![id] =
                     ReviewAfter(review[id], action, ApiActor,
                                 IF action = "reject" THEN OtherReason ELSE <<>>, clock)]
    /\ outbox' = Publish(outbox, registry,
                          RecordEvent(EventType(action), eventSeq + 1, id))
    /\ eventSeq' = NextSeq(eventSeq, registry, 1)
    /\ op' = <<"other", id>>
    /\ UNCHANGED <<filterStatus, data, tableSelected, pageSelected, dialog,
                   rejectRecord, reason, singleReason, inflight, response>>
    /\ UNCHANGED <<notifVars, libVars, stats, clock, registry, callVars>>

\* the toolbar's approve / reject button: rendered when something is selected,
\* disabled when nothing selected is eligible
OpenBatchDialog(which) ==
    /\ dialog = "none"
    /\ pageSelected # {}
    /\ IF which = "approve"
       THEN eligibleForApprove(pageSelected, data) # {}
       ELSE eligibleForReject(pageSelected, data) # {}
    /\ dialog' = which
    /\ op' = <<"openBatch", which>>
    /\ UNCHANGED <<serverStatus, filterStatus, data, tableSelected, pageSelected,
                   rejectRecord, reason, singleReason, inflight, response>>
    /\ UNCHANGED <<notifVars, stats, restVars>>

\* the reject button of a table row
setRejectRecord(id) ==
    /\ dialog = "none"
    /\ data[id] # "none"
    /\ TableOffersReview(data[id])
    /\ dialog' = "single"
    /\ rejectRecord' = id
    /\ op' = <<"openSingle", id>>
    /\ UNCHANGED <<serverStatus, filterStatus, data, tableSelected, pageSelected,
                   reason, singleReason, inflight, response>>
    /\ UNCHANGED <<notifVars, stats, restVars>>

\* the reason textarea of the open dialog
setReason(r) ==
    /\ dialog \in {"reject", "single"}
    /\ inflight = NoRequest
    /\ IF dialog = "reject"
       THEN reason' = r /\ reason' # reason /\ UNCHANGED singleReason
       ELSE singleReason' = r /\ singleReason' # singleReason /\ UNCHANGED reason
    /\ op' = <<"setReason", 0>>
    /\ UNCHANGED <<serverStatus, filterStatus, data, tableSelected, pageSelected,
                   dialog, rejectRecord, inflight, response>>
    /\ UNCHANGED <<notifVars, stats, restVars>>

\* Cancel: the batch dialogs keep their reason, RejectionDialog unmounts
CancelDialog ==
    /\ dialog # "none"
    /\ inflight = NoRequest
    /\ dialog' = "none"
    /\ rejectRecord' = 0
    /\ singleReason' = <<>>
    /\ op' = <<"cancel", 0>>
    /\ UNCHANGED <<serverStatus, filterStatus, data, tableSelected, pageSelected,
                   reason, inflight, response>>
    /\ UNCHANGED <<notifVars, stats, restVars>>

\* RejectionDialog.handleReject, up to the await
handleReject ==
    /\ dialog = "single"
    /\ inflight = NoRequest
    /\ IF SingleReasonMissing(singleReason)
       THEN /\ op' = <<"handleReject", "ValidationFailed">>
            /\ UNCHANGED inflight
       ELSE /\ inflight' = [kind |-> "reject", ids |-> {rejectRecord},
                            reason |-> singleReason]
            /\ op' = <<"handleReject", "sent">>
    /\ UNCHANGED <<serverStatus, filterStatus, data, tableSelected, pageSelected,
                   dialog, rejectRecord, reason, singleReason, response>>
    /\ UNCHANGED <<notifVars, stats, restVars>>

\* BatchActions.handleBatchApprove, up to the await
handleBatchApprove ==
    /\ dialog = "approve"
    /\ inflight = NoRequest
    /\ IF eligibleForApprove(pageSelected, data) = {}
       THEN /\ op' = <<"handleBatchApprove", "noop">>
            /\ UNCHANGED inflight
       ELSE /\ inflight' = [kind |-> "approve-batch",
                            ids |-> eligibleForApprove(pageSelected, data),
                            reason |-> <<>>]
            /\ op' = <<"handleBatchApprove", "sent">>
    /\ UNCHANGED <<serverStatus, filterStatus, data, tableSelected, pageSelected,
                   dialog, rejectRecord, reason, singleReason, response>>
    /\ UNCHANGED <<notifVars, stats, restVars>>

\* BatchActions.handleBatchReject, up to the await
handleBatchReject ==
    /\ dialog = "reject"
    /\ inflight = NoRequest
    /\ IF BatchReasonMissing(reason)
       THEN /\ op' = <<"handleBatchReject", "ValidationFailed">>
            /\ UNCHANGED inflight
       ELSE /\ inflight' = [kind |-> "reject-batch",
                            ids |-> eligibleForReject(pageSelected, data),
                            reason |-> reason]
            /\ op' = <<"handleBatchReject", "sent">>
    /\ UNCHANGED <<serverStatus, filterStatus, data, tableSelected, pageSelected,
                   dialog, rejectRecord, reason, singleReason, response>>
    /\ UNCHANGED <<notifVars, stats, restVars>>

\* the server executes the request in flight: applyTransition (section 4.1)
\* for a single reject, applyBatch (section 4.2) for the batch endpoints
ServerHandle ==
    /\ inflight # NoRequest
    /\ response = NoResponse
    /\ LET action == IF inflight.kind = "approve-batch" THEN "approve" ELSE "reject"
           blank  == action = "reject" /\ Trim(inflight.reason) = <<>>
           single == inflight.kind = "reject"
           id     == CHOOSE i \in inflight.ids : TRUE
       IN  IF blank
           THEN /\ response' = [kind |-> inflight.kind, ok |-> FALSE, okIds |-> {},
                                errorCount |-> 0, error |-> "ValidationFailed"]
                /\ UNCHANGED <<serverStatus, review>>
           ELSE IF single /\ TransitionTo(serverStatus[id], "reject") = "InvalidTransition"
           THEN /\ response' = [kind |-> inflight.kind, ok |-> FALSE, okIds |-> {},
                                errorCount |-> 0, error |-> "InvalidTransition"]
                /\ UNCHANGED <<serverStatus, review>>
           ELSE /\ serverStatus' = BatchStore(serverStatus, inflight.ids, action)
                /\ review' = [r \in RecordIds |->
                                 IF r \in BatchEligible(serverStatus, inflight.ids)
                                 THEN ReviewAfter(review[r], action, ApiActor,
                                                  inflight.reason, clock)
                                 ELSE review[r]]
                /\ response' = [kind |-> inflight.kind, ok |-> TRUE,
                                okIds |-> BatchEligible(serverStatus, inflight.ids),
                                errorCount |-> 0, error |-> "none"]
    /\ op' = <<"server", inflight.kind>>
    /\ UNCHANGED <<filterStatus, data, tableSelected, pageSelected, dialog,
                   rejectRecord, reason, singleReason, inflight>>
    /\ UNCHANGED <<notifVars, libVars, stats, clock, hubVars, callVars>>

\* the awaited mutation settles: onSuccess refetches the list, the handler
\* closes its dialog, resets the reason and calls onComplete / onSuccess
ClientSettle ==
    /\ response # NoResponse
    /\ inflight' = NoRequest
    /\ response' = NoResponse
    /\ IF response.ok
       THEN /\ data' = ListRecords(serverStatus, filterStatus)
            /\ dialog' = "none"
            /\ IF response.kind = "reject"
               THEN /\ singleReason' = <<>>
                    /\ rejectRecord' = 0
                    /\ UNCHANGED <<reason, pageSelected>>
               ELSE /\ reason' = <<>>
                    /\ pageSelected' = {}
                    /\ UNCHANGED <<singleReason, rejectRecord>>
       ELSE UNCHANGED <<data, dialog, singleReason, rejectRecord, reason, pageSelected>>
    /\ stats' = IF response.ok /\ stats # NoStats THEN Stats(serverStatus) ELSE stats
    /\ op' = <<"settle", IF response.ok THEN "complete" ELSE "failed">>
    /\ UNCHANGED <<serverStatus, filterStatus, tableSelected>>
    /\ UNCHANGED <<notifVars, restVars>>

\* the records page, opened with or without ?status=, over any store
InitReview ==
    /\ opts = [enabled |-> TRUE, autoReconnect |-> TRUE, maxReconnectAttempts |-> MaxN]
    /\ InitConn
    /\ serverStatus \in [RecordIds -> ExtractionStatus]
    /\ filterStatus \in {"all", PENDING}
    /\ InitPage
    /\ InitStore
    /\ InitServer({})
    /\ InitLib

NextReview ==
    \/ FetchRecords
    \/ \E id \in RecordIds : \E checked \in BOOLEAN : handleSelectOne(id, checked)
    \/ \E checked \in BOOLEAN : handleSelectAll(checked)
    \/ \E id \in RecordIds : \E a \in {"approve", "reject", "edit", "export"} : OtherActor(id, a)
    \/ \E which \in {"approve", "reject"} : OpenBatchDialog(which)
    \/ \E id \in RecordIds : setRejectRecord(id)
    \/ \E r \in ReasonInputs : setReason(r)
    \/ CancelDialog
    \/ handleReject
    \/ handleBatchApprove
    \/ handleBatchReject
    \/ ServerHandle
    \/ ClientSettle

SpecReview == InitReview /\ [][NextReview]_vars

\* the cached list and statistics of a tab that is connected to the hub
InitCache ==
    /\ opts = [enabled |-> TRUE, autoReconnect |-> TRUE, maxReconnectAttempts |-> MaxN]
    /\ InitConn
    /\ serverStatus \in [RecordIds -> {PENDING, APPROVED}]
    /\ filterStatus = "all"
    /\ InitPage
    /\ InitStore
    /\ InitServer({})
    /\ InitLib

CacheMessages ==
    { RecordEvent(t, 1, r) : t \in {t_record_approved, t_record_rejected}, r \in RecordIds }
    \cup { Json(t_export_complete, 1), Json(t_pong, 0) }

NextCache ==
    \/ Mount
    \/ \E s \in 1..Len(sockets) : SocketOpen(s)
    \/ FetchRecords
    \/ FetchStats
    \/ \E s \in 1..Len(sockets) : \E m \in CacheMessages : Receive(s, m, MaxMsgs)
    \/ \E k \in {"records", "stats"} : RefetchQuery(k)

SpecCache == InitCache /\ [][NextCache]_vars

----------------------------------------------------------------------------
(* Properties *)

Quiescent ==
    /\ PendingTimers = {}
    /\ \A i \in 1..Len(sockets) : sockets[i].readyState = "CLOSED"

\* C1: with autoReconnect and maxReconnectAttempts = N >= 1, a manager whose
\* sockets all close without opening has, once nothing is pending any more,
\* created the initial socket plus exactly N reconnect sockets, and its
\* attempt counter is N.
C1_ExactlyNReconnects ==
    ( /\ mounted = "mounted" /\ reruns = 0 /\ opens = 0
      /\ opts.enabled /\ opts.autoReconnect /\ opts.maxReconnectAttempts >= 1
      /\ sockets # <<>> /\ Quiescent )
    => ( /\ Len(sockets) = 1 + opts.maxReconnectAttempts
         /\ reconnectAttempts = opts.maxReconnectAttempts )

\* C2: a session never has more than one WebSocket that is connecting or open.
C2_AtMostOneLiveSocket == Cardinality(LiveSockets) <= 1

\* the event types that the specification says must trigger a refetch
RefetchTypes(m) ==
    /\ m.kind = "json" /\ m.hasType
    /\ \/ StartsWith(m.type, s_record_)
       \/ StartsWith(m.type, s_batch_)
       \/ m.type = t_export_complete
       \/ m.type = t_sync_complete

\* C3: a received event whose type starts with record_ or batch_, or is
\* export_complete or sync_complete, leaves both the record list and the
\* statistics invalidated.
C3_InvalidatesRecordsAndStats ==
    (op[1] = "recv" /\ RefetchTypes(op[2])) => {"records", "stats"} \subseteq stale

\* C4: the buffer never exceeds 50 entries and is exactly the min(k, 50) most
\* recent non-pong events received since the last clear, newest first.
C4_BufferIsNewest50 ==
    /\ Len(notifications) <= 50
    /\ notifications = SubSeq(received, 1, Min(Len(received), 50))
    /\ \A i \in 1..Len(notifications) : notifications[i].type # t_pong

C4_Witness ==
    /\ Len(received) > 50
    /\ Len(notifications) = 50
    /\ notifications[1].id = toastCalls

IsBlank(r) == \A i \in 1..Len(r) : r[i] \in Whitespace

\* C5: rejecting with an empty or whitespace-only reason reports
\* ValidationFailed on the single-record path and on the batch path, issues
\* no request and leaves every record's status as it is; the store never
\* applies a reject that carries such a reason.
C5_BlankReasonIsValidationFailed ==
    [][ /\ (op'[1] = "handleReject" /\ IsBlank(singleReason))
           => (op'[2] = "ValidationFailed" /\ UNCHANGED <<inflight, serverStatus>>)
        /\ (op'[1] = "handleBatchReject" /\ IsBlank(reason))
           => (op'[2] = "ValidationFailed" /\ UNCHANGED <<inflight, serverStatus>>)
        /\ (inflight' # NoRequest /\ inflight'.kind \in {"reject", "reject-batch"})
           => ~IsBlank(inflight'.reason)
      ]_vars

\* the batch reject dialog confirmed with a whitespace-only reason
C5_Witness ==
    /\ op = <<"handleBatchReject", "ValidationFailed">>
    /\ dialog = "reject"
    /\ reason # <<>>
    /\ eligibleForReject(pageSelected, data) # {}
    /\ inflight = NoRequest

\* C6: the table row, the record detail view and the batch toolbar offer
\* review actions for a record exactly when its status is pending or edited.
C6_EligibleIffPendingOrEdited ==
    /\ \A id \in RecordIds :
          data[id] # "none" => (TableOffersReview(data[id]) <=> data[id] \in Reviewable)
    /\ \A id \in RecordIds :
          canReview(serverStatus[id]) <=> serverStatus[id] \in Reviewable
    /\ eligibleForApprove(pageSelected, data)
          = { id \in pageSelected : data[id] \in Reviewable }
    /\ eligibleForReject(pageSelected, data)
          = { id \in pageSelected : data[id] \in Reviewable }
    /\ dialog = "single" => rejectRecord \in RecordIds

\* a selection that holds an edited record and an approved one
C6_Witness ==
    \E i, j \in pageSelected :
        /\ data[i] = EDITED
        /\ data[j] = APPROVED
        /\ eligibleForApprove(pageSelected, data) = {i}

\* C7: a batch re-checks eligibility when it executes: a record that is no
\* longer eligible is left as it is and counted neither as done nor as an
\* error, and every selected record that is still eligible is processed.
C7_BatchRechecksEligibility ==
    [][ /\ ( /\ op'[1] = "server"
             /\ inflight.kind \in {"approve-batch", "reject-batch"}
             /\ response'.ok )
           => \A id \in inflight.ids :
                 IF serverStatus[id] \in Reviewable
                 THEN /\ id \in response'.okIds
                      /\ serverStatus'[id] # serverStatus[id]
                 ELSE /\ id \notin response'.okIds
                      /\ serverStatus'[id] = serverStatus[id]
                      /\ response'.errorCount = 0
        /\ ( \/ op'[1] = "handleBatchApprove"
             \/ op' = <<"handleBatchReject", "sent">> )
           => \A id \in pageSelected :
                 serverStatus[id] \in Reviewable => id \in inflight'.ids
      ]_vars

C9_CloseSchedulesOneAttempt ==
    [][ /\ ( /\ op'[1] = "close"
             /\ sockets[op'[2]].opts.autoReconnect
             /\ reconnectAttempts < sockets[op'[2]].opts.maxReconnectAttempts )
           => ( /\ reconnectAttempts' = reconnectAttempts + 1
                /\ Len(timers') = Len(timers) + 1
                /\ timers'[Len(timers')].pending )
        /\ op'[1] = "fire" => Len(sockets') = Len(sockets) + 1
        /\ (op'[1] = "close" /\ ~sockets[op'[2]].opts.autoReconnect)
           => UNCHANGED <<reconnectAttempts, timers>>
      ]_vars

\* C10: a pong changes nothing: buffer, toasts and invalidations stay as they are.
C10_PongChangesNothing ==
    [][ (op'[1] = "recv" /\ op'[2].hasType /\ op'[2].type = t_pong)
        => UNCHANGED <<notifications, toastCalls, lastToast, stale>> ]_vars

\* a pong received while the buffer holds an event
C10_Witness ==
    /\ op[1] = "recv"
    /\ op[2].hasType /\ op[2].type = t_pong
    /\ Len(notifications) > 0

----------------------------------------------------------------------------
(* The server: applyTransition calls against the Record Store *)

ActorOf(r) == IF r % 2 = 1 THEN "alice" ELSE "bob"

PayloadsOf(action) ==
    IF action = "reject" THEN { <<"\t", " ">>, OtherReason } ELSE { <<>> }

\* the store's clock advances
Tick ==
    /\ clock < MaxClock
    /\ clock' = clock + 1
    /\ op' = <<"clock", clock + 1>>
    /\ UNCHANGED <<notifVars, libVars, reviewVars, review, hubVars, callVars>>

\* call r of applyTransition(recordId, action, actor, payload) arrives: the
\* record is looked up and the inputs are checked against what was read
Submit(r, id, action, payload) ==
    /\ tx[r].phase = "idle"
    /\ \A q \in 1..(r - 1) : tx[q].phase # "idle"
    /\ LET e0 == IF id = UnknownId THEN "NotFound"
                 ELSE Validate(serverStatus[id], action, payload)
           rq == [NoCall EXCEPT !.id = id, !.action = action, !.payload = payload]
       IN  tx' = [tx EXCEPT ![r] =
                    IF e0 # "none"
                    THEN [rq EXCEPT !.phase = "done", !.error = e0]
                    ELSE [rq EXCEPT
                            !.phase = "read",
                            !.expected = serverStatus[id],
                            !.rivals = { q \in 1..MaxCalls :
                                           /\ tx[q].phase = "read"
                                           /\ tx[q].id = id
                                           /\ ~tx[q].dirty }]]
    /\ op' = <<"submit", r>>
    /\ UNCHANGED <<notifVars, libVars, reviewVars, storeVars, hubVars, batch>>

\* call r performs its conditional write, hands the event to the hub and returns
Commit(r) ==
    /\ tx[r].phase = "read"
    /\ LET t   == tx[r]
           res == applyTransition(serverStatus[t.id], review[t.id], t.action,
                                  ActorOf(r), t.payload, t.expected, clock)
           ok  == res.error = "none"
           fin == IF ok
                  THEN Persisted(res,
                                 [res EXCEPT !.status = serverStatus[t.id],
                                             !.review = review[t.id]],
                                 DroppedFor(outbox, registry))
                  ELSE res
       IN  /\ serverStatus' = [serverStatus EXCEPT ![t.id] = fin.status]
           /\ review' = [review EXCEPT ![t.id] = fin.review]
           /\ outbox' = IF ok
                        THEN Publish(outbox, registry,
                                     RecordEvent(EventType(t.action), eventSeq + 1, t.id))
                        ELSE outbox
           /\ eventSeq' = IF ok THEN NextSeq(eventSeq, registry, 1) ELSE eventSeq
           /\ tx' = [q \in 1..MaxCalls |->
                       IF q = r THEN [t EXCEPT !.phase = "done", !.error = fin.error]
                       ELSE IF ok /\ tx[q].phase = "read" /\ tx[q].id = t.id
                       THEN [tx[q] EXCEPT !.dirty = TRUE]
                       ELSE tx[q]]
    /\ op' = <<"commit", r>>
    /\ UNCHANGED <<notifVars, libVars, filterStatus, data, tableSelected, pageSelected, dialog,
                   rejectRecord, reason, singleReason, inflight, response, stats>>
    /\ UNCHANGED <<clock, registry, batch>>

\* the store under concurrent applyTransition calls, every connection registered
InitStoreSpec ==
    /\ opts = [enabled |-> TRUE, autoReconnect |-> TRUE, maxReconnectAttempts |-> MaxN]
    /\ InitConn
    /\ serverStatus \in [RecordIds -> ExtractionStatus]
    /\ filterStatus = "all"
    /\ InitPage
    /\ InitStore
    /\ InitServer(Clients)
    /\ InitLib

NextStore ==
    \/ Tick
    \/ \E r \in 1..MaxCalls : \E id \in RecordIds \cup {UnknownId} :
          \E a \in Actions : \E p \in PayloadsOf(a) : Submit(r, id, a, p)
    \/ \E r \in 1..MaxCalls : Commit(r)

SpecStore == InitStoreSpec /\ [][NextStore]_vars

----------------------------------------------------------------------------
(* The server: Batch Coordinator (section 4.2) *)

\* variant of BatchAfterItem that gives up on the first failure
BatchAfterItem_abort(b, id, err) ==
    IF err = "none"
    THEN [b EXCEPT !.todo = @ \ {id}, !.okIds = @ \cup {id}, !.okCount = @ + 1]
    ELSE [b EXCEPT !.todo = {}, !.errors = @ \cup {<<id, err>>},
                   !.errorCount = @ + 1]

\* the bookkeeping after one id: a success joins the succeeded ids, a failure
\* is caught and recorded in errors, and the remaining ids stay to be done
BatchAfterItem(b, id, err) ==
    IF err = "none"
    THEN [b EXCEPT !.todo = @ \ {id}, !.okIds = @ \cup {id}, !.okCount = @ + 1]
    ELSE [b EXCEPT !.todo = @ \ {id}, !.errors = @ \cup {<<id, err>>},
                   !.errorCount = @ + 1]

\* applyBatch(ids, action, actor, payload) arrives: a reject batch needs its
\* reason, then ids is filtered down to the ids eligible now
BatchStart(ids, action, payload) ==
    /\ batch.phase = "idle"
    /\ batch' = IF action = "reject" /\ Trim(payload) = <<>>
                THEN [NoBatch EXCEPT !.phase = "done", !.action = action,
                                     !.payload = payload, !.ids = ids,
                                     !.error = "ValidationFailed"]
                ELSE [NoBatch EXCEPT !.phase = "running", !.action = action,
                                     !.payload = payload, !.ids = ids,
                                     !.eligible = BatchEligible(serverStatus, ids),
                                     !.todo = BatchEligible(serverStatus, ids)]
    /\ op' = <<"batchStart", action>>
    /\ UNCHANGED <<notifVars, libVars, reviewVars, storeVars, hubVars, tx>>

\* the coordinator invokes applyTransition for one eligible id; the call can
\* fail because the record has moved on since the filter ran, or because the
\* store raises
BatchItem(id, raises) ==
    /\ batch.phase = "running"
    /\ id \in batch.todo
    /\ LET res == applyTransition(serverStatus[id], review[id], batch.action, ApiActor,
                                  batch.payload, serverStatus[id], clock)
           err == IF raises THEN "StoreError" ELSE res.error
           ok  == err = "none"
       IN  /\ serverStatus' = IF ok THEN [serverStatus EXCEPT ![id] = res.status]
                              ELSE serverStatus
           /\ review' = IF ok THEN [review EXCEPT ![id] = res.review] ELSE review
           /\ outbox' = IF ok
                        THEN Publish(outbox, registry,
                                     RecordEvent(EventType(batch.action), eventSeq + 1, id))
                        ELSE outbox
           /\ eventSeq' = IF ok THEN NextSeq(eventSeq, registry, 1) ELSE eventSeq
           /\ batch' = BatchAfterItem(batch, id, err)
           /\ op' = <<"batchItem", err>>
    /\ UNCHANGED <<notifVars, libVars, filterStatus, data, tableSelected, pageSelected, dialog,
                   rejectRecord, reason, singleReason, inflight, response, stats>>
    /\ UNCHANGED <<clock, registry, tx>>

\* every eligible id has been attempted: the batch-level event is emitted and
\* the result returned
BatchReturn ==
    /\ batch.phase = "running"
    /\ batch.todo = {}
    /\ batch' = [batch EXCEPT !.phase = "done"]
    /\ outbox' = Publish(outbox, registry,
                         Json(IF batch.action = "approve" THEN t_batch_approved
                              ELSE t_batch_rejected, eventSeq + 1))
    /\ eventSeq' = NextSeq(eventSeq, registry, 1)
    /\ op' = <<"batchReturn", 0>>
    /\ UNCHANGED <<notifVars, libVars, reviewVars, storeVars, registry, tx>>

NextBatch ==
    \/ \E ids \in SUBSET RecordIds : \E a \in {"approve", "reject"} :
          \E p \in PayloadsOf(a) : BatchStart(ids, a, p)
    \/ \E id \in RecordIds : \E raises \in BOOLEAN : BatchItem(id, raises)
    \/ BatchReturn
    \/ \E id \in RecordIds : \E a \in Actions : OtherActor(id, a)

\* one applyBatch call while other reviewers work on the same records
SpecBatch == InitStoreSpec /\ [][NextBatch]_vars

----------------------------------------------------------------------------
(* The server: Notification Hub (section 4.4) *)

\* a client connects: its connection joins the registry with an empty buffer
Register(c) ==
    /\ c \notin registry
    /\ registry' = registry \cup {c}
    /\ outbox' = [outbox EXCEPT ![c] = <<>>]
    /\ op' = <<"register", c>>
    /\ UNCHANGED <<notifVars, libVars, reviewVars, storeVars, eventSeq, callVars>>

\* a client closes its connection: it is deregistered at once and its buffer freed
Deregister(c) ==
    /\ c \in registry
    /\ registry' = registry \ {c}
    /\ outbox' = [outbox EXCEPT ![c] = <<>>]
    /\ op' = <<"deregister", c>>
    /\ UNCHANGED <<notifVars, libVars, reviewVars, storeVars, eventSeq, callVars>>

\* the transport writes the oldest buffered event of connection c to its socket
Drain(c) ==
    /\ c \in registry
    /\ outbox[c] # <<>>
    /\ outbox' = [outbox EXCEPT ![c] = Tail(outbox[c])]
    /\ op' = <<"drain", c>>
    /\ UNCHANGED <<notifVars, libVars, reviewVars, storeVars, registry, eventSeq, callVars>>

\* publish(event) called by a producer
HubPublish(type) ==
    /\ eventSeq < MaxEvents
    /\ registry # {}
    /\ outbox' = Publish(outbox, registry, Json(type, eventSeq + 1))
    /\ eventSeq' = NextSeq(eventSeq, registry, 1)
    /\ op' = <<"publish", Json(type, eventSeq + 1)>>
    /\ UNCHANGED <<notifVars, libVars, reviewVars, storeVars, registry, callVars>>

NextHub ==
    \/ \E c \in Clients : Register(c)
    \/ \E c \in Clients : Deregister(c)
    \/ \E c \in Clients : Drain(c)
    \/ \E t \in {t_record_approved, t_batch_rejected} : HubPublish(t)

\* the hub alone: connections come and go, drain at their own pace, and
\* producers publish
SpecHub == Init /\ [][NextHub]_vars

----------------------------------------------------------------------------
(* Callers of useNotifications *)

\* a component renders useNotifications(given)
useNotifications ==
    /\ config = Unresolved
    /\ config' = ResolveOptions(given)
    /\ op' = <<"useNotifications", 0>>
    /\ UNCHANGED <<notifVars, reviewVars, storeVars, hubVars, callVars, given, call, webVars>>

\* NotificationProvider renders useNotifications with its own literal options
NotificationProvider ==
    /\ config = Unresolved
    /\ given' = ProviderOptions
    /\ config' = ResolveOptions(ProviderOptions)
    /\ op' = <<"NotificationProvider", 0>>
    /\ UNCHANGED <<notifVars, reviewVars, storeVars, hubVars, callVars, call, webVars>>

InitOptions ==
    /\ opts = [enabled |-> TRUE, autoReconnect |-> TRUE, maxReconnectAttempts |-> MaxN]
    /\ InitConn
    /\ serverStatus = [id \in RecordIds |-> PENDING]
    /\ filterStatus = "all"
    /\ InitPage
    /\ InitStore
    /\ InitServer({})
    /\ given \in CallerOptions
    /\ config = Unresolved
    /\ call = NoApiCall
    /\ exportHook = NoHook
    /\ storage = NoItem
    /\ InitWorker

NextOptions ==
    \/ useNotifications
    \/ NotificationProvider

SpecOptions == InitOptions /\ [][NextOptions]_vars

----------------------------------------------------------------------------
(* Callers of the API client *)

apiGet(resp) ==
    /\ call' = ApiCall("GET", resp)
    /\ op' = <<"apiGet", 0>>
    /\ UNCHANGED <<notifVars, reviewVars, storeVars, hubVars, callVars, given, config, webVars>>

apiPost(resp) ==
    /\ call' = ApiCall("POST", resp)
    /\ op' = <<"apiPost", 0>>
    /\ UNCHANGED <<notifVars, reviewVars, storeVars, hubVars, callVars, given, config, webVars>>

apiPut(resp) ==
    /\ call' = ApiCall("PUT", resp)
    /\ op' = <<"apiPut", 0>>
    /\ UNCHANGED <<notifVars, reviewVars, storeVars, hubVars, callVars, given, config, webVars>>

apiDelete(resp) ==
    /\ call' = ApiCall("DELETE", resp)
    /\ op' = <<"apiDelete", 0>>
    /\ UNCHANGED <<notifVars, reviewVars, storeVars, hubVars, callVars, given, config, webVars>>

InitApi ==
    /\ opts = [enabled |-> TRUE, autoReconnect |-> TRUE, maxReconnectAttempts |-> MaxN]
    /\ InitConn
    /\ serverStatus = [id \in RecordIds |-> PENDING]
    /\ filterStatus = "all"
    /\ InitPage
    /\ InitStore
    /\ InitServer({})
    /\ InitLib

NextApi ==
    \/ \E resp \in Responses \cup {NetworkFailure} : apiGet(resp)
    \/ \E resp \in Responses \cup {NetworkFailure} : apiPost(resp)
    \/ \E resp \in Responses \cup {NetworkFailure} : apiPut(resp)
    \/ \E resp \in Responses \cup {NetworkFailure} : apiDelete(resp)

SpecApi == InitApi /\ [][NextApi]_vars

----------------------------------------------------------------------------
(* The records page mounts useExportMode; ExportSettings calls updateMode *)

\* first render: useState("manual")
ExportRender ==
    /\ exportHook.phase = "unmounted"
    /\ exportHook.mounts < MaxMounts
    /\ exportHook' = [exportHook EXCEPT !.phase = "rendered", !.mode = "manual",
                                        !.mounts = exportHook.mounts + 1]
    /\ op' = <<"useExportMode", 0>>
    /\ UNCHANGED <<notifVars, reviewVars, storeVars, hubVars, callVars, given, config, call,
                   storage, swCache, origin, swEvent>>

\* useEffect(..., []) after the first render
ExportEffect ==
    /\ exportHook.phase = "rendered"
    /\ exportHook' = [exportHook EXCEPT !.phase = "ready",
                                        !.mode = LoadMode(storage, exportHook.mode)]
    /\ op' = <<"exportEffect", 0>>
    /\ UNCHANGED <<notifVars, reviewVars, storeVars, hubVars, callVars, given, config, call,
                   storage, swCache, origin, swEvent>>

\* updateMode(newMode): setMode, then localStorage.setItem
updateMode(m) ==
    /\ exportHook.phase = "ready"
    /\ exportHook' = [exportHook EXCEPT !.mode = m, !.saved = m]
    /\ storage' = StoredItem(m)
    /\ op' = <<"updateMode", m>>
    /\ UNCHANGED <<notifVars, reviewVars, storeVars, hubVars, callVars, given, config, call,
                   swCache, origin, swEvent>>

\* the records page unmounts: the hook's state is discarded
ExportUnmount ==
    /\ exportHook.phase = "ready"
    /\ exportHook' = [exportHook EXCEPT !.phase = "unmounted", !.mode = "manual"]
    /\ op' = <<"exportUnmount", 0>>
    /\ UNCHANGED <<notifVars, reviewVars, storeVars, hubVars, callVars, given, config, call,
                   storage, swCache, origin, swEvent>>

InitExport ==
    /\ opts = [enabled |-> TRUE, autoReconnect |-> TRUE, maxReconnectAttempts |-> MaxN]
    /\ InitConn
    /\ serverStatus = [id \in RecordIds |-> PENDING]
    /\ filterStatus = "all"
    /\ InitPage
    /\ InitStore
    /\ InitServer({})
    /\ given = NoOptions
    /\ config = Unresolved
    /\ call = NoApiCall
    /\ exportHook = NoHook
    /\ storage \in {NoItem} \cup
                    { StoredItem(v) : v \in ExportModes \cup {"invalid-mode", "", "Manual",
                                                              "auto", " manual", "null"} }
    /\ InitWorker

NextExport ==
    \/ ExportRender
    \/ ExportEffect
    \/ \E m \in ExportModes : updateMode(m)
    \/ ExportUnmount

SpecExport == InitExport /\ [][NextExport]_vars

----------------------------------------------------------------------------
(* Requests of the page passing through the service worker *)

\* the content behind a path changes at the network (a deploy, a record edit)
OriginChange(p) ==
    /\ SumOver(origin, Paths) - Cardinality(Paths) < MaxChanges
    /\ origin' = [origin EXCEPT ![p] = origin[p] + 1]
    /\ op' = <<"origin", 0>>
    /\ UNCHANGED <<notifVars, reviewVars, storeVars, hubVars, callVars, given, config, call,
                   exportHook, storage, swCache, swEvent>>

\* one fetch event: the listener, and the background fetch it started
FetchEvent(req, net) ==
    /\ swEvent' = [request |-> req, net |-> net, handled |-> ~Skips(req),
                   source |-> Served(swCache, origin, req, net).source,
                   version |-> Served(swCache, origin, req, net).version]
    /\ swCache' = CacheAfter(swCache, origin, req, net)
    /\ op' = <<"fetch", 0>>
    /\ UNCHANGED <<notifVars, reviewVars, storeVars, hubVars, callVars, given, config, call,
                   exportHook, storage, origin>>

NextWorker ==
    \/ \E p \in Paths : OriginChange(p)
    \* the network answers with a 2xx response, with another response, or fails
    \/ \E req \in Requests, net \in {"ok", "notok", "fail"} : FetchEvent(req, net)

SpecWorker == InitApi /\ [][NextWorker]_vars

\* C11: handling a received event leaves the cached record list and the
\* cached statistics exactly as they are; all it does to cached data is to
\* add query keys to the set marked stale.
C11_EventNeverWritesCache ==
    [][ op'[1] = "recv"
        => /\ data' = data
           /\ stats' = stats
           /\ stale \subseteq stale' ]_vars

\* an event reporting the approval of a record the cache still lists as pending
C11_Witness ==
    /\ op[1] = "recv"
    /\ op[2].record \in RecordIds
    /\ ReportedStatus(op[2]) = APPROVED
    /\ data[op[2].record] = PENDING
    /\ stats # NoStats
    /\ {"records", "stats"} \subseteq stale

\* the (current status, action, resulting status) triples the claim lists
C12_Table ==
    { <<PENDING, "approve", APPROVED>>, <<EDITED, "approve", APPROVED>>,
      <<PENDING, "reject", REJECTED>>,  <<EDITED, "reject", REJECTED>>,
      <<PENDING, "edit", EDITED>>,      <<EDITED, "edit", EDITED>>,
      <<APPROVED, "export", EXPORTED>> }

C14_ReplayKeepsReviewedAt ==
    [][ /\ \A id \in RecordIds :
              review'[id].reviewedAt # review[id].reviewedAt
              => serverStatus[id] \in {PENDING, EDITED}
        /\ \A r \in 1..MaxCalls :
              ( /\ tx[r].phase # "done" /\ tx'[r].phase = "done"
                /\ tx'[r].id \in RecordIds
                /\ tx'[r].action \in {"approve", "reject"}
                /\ serverStatus[tx'[r].id] \in {APPROVED, REJECTED} )
              => /\ tx'[r].error # "none"
                 /\ review'[tx'[r].id] = review[tx'[r].id]
      ]_vars

\* an approve applied at time 1 and replayed at time 2
C14_Witness ==
    /\ tx[1].phase = "done" /\ tx[1].action = "approve" /\ tx[1].error = "none"
    /\ tx[2].phase = "done" /\ tx[2].action = "approve" /\ tx[2].id = tx[1].id
    /\ tx[2].error # "none"
    /\ clock = 2
    /\ review[tx[1].id].reviewedAt = 1
    /\ review[tx[1].id].reviewedBy = ActorOf(1)

\* C15: of two calls on the same record that read the same pre-state, at most
\* one is applied; the other fails with InvalidTransition or Conflict.
C15_AtMostOneConcurrentApplied ==
    \A r \in 1..MaxCalls : \A q \in tx[r].rivals :
        (tx[r].phase = "done" /\ tx[q].phase = "done")
        => /\ ~(tx[r].error = "none" /\ tx[q].error = "none")
           /\ tx[r].error = "none" => tx[q].error \in {"InvalidTransition", "Conflict"}
           /\ tx[q].error = "none" => tx[r].error \in {"InvalidTransition", "Conflict"}

\* C17: a transition whose event the hub drops for some connection is
\* persisted all the same: the record has its new status, approve and reject
\* have stamped the review fields, and the call returns without an error.
C17_DropNeverRollsBack ==
    [][ \A r \in 1..MaxCalls :
          ( /\ op' = <<"commit", r>>
            /\ serverStatus[tx[r].id] = tx[r].expected
            /\ \E c \in registry : Len(outbox[c]) >= OutboxCap )
          => LET id == tx[r].id
             IN  /\ <<serverStatus[id], tx[r].action, serverStatus'[id]>> \in C12_Table
                 /\ tx'[r].error = "none"
                 /\ tx[r].action \in {"approve", "reject"}
                      => /\ review'[id].reviewedAt = clock
                         /\ review'[id].reviewedBy = ActorOf(r)
                         /\ review'[id].reviewNotes = tx[r].payload
                 /\ \A c \in registry :
                      Len(outbox[c]) >= OutboxCap => outbox'[c] = outbox[c]
      ]_vars

\* the second transition of a run: every buffer still holds the first event
C17_Witness ==
    /\ op[1] = "commit"
    /\ tx[op[2]].error = "none"
    /\ tx[op[2]].action = "reject"
    /\ serverStatus[tx[op[2]].id] = REJECTED
    /\ review[tx[op[2]].id].reviewNotes = OtherReason
    /\ \A c \in registry : Len(outbox[c]) = OutboxCap /\ outbox[c][1].record # tx[op[2]].id

\* C18: an export of a record that is already exported succeeds and leaves
\* the record exported.
C18_ReexportSucceeds ==
    [][ \A r \in 1..MaxCalls :
          ( /\ tx[r].phase # "done" /\ tx'[r].phase = "done"
            /\ tx'[r].id \in RecordIds
            /\ tx'[r].action = "export"
            /\ serverStatus[tx'[r].id] = EXPORTED )
          => /\ tx'[r].error = "none"
             /\ serverStatus'[tx'[r].id] = EXPORTED
      ]_vars

\* C13: when applyBatch returns, every id that was eligible is in exactly one
\* of the succeeded ids and the errors, no other id is in either, and the
\* two counts are the sizes of the two lists.
C13_BatchAccountsForEveryEligibleId ==
    (batch.phase = "done" /\ batch.error = "none")
    => LET errIds == { e[1] : e \in batch.errors }
       IN  /\ batch.okIds \cup errIds = batch.eligible
           /\ batch.okIds \cap errIds = {}
           /\ batch.okCount = Cardinality(batch.okIds)
           /\ batch.errorCount = Cardinality(batch.errors)
           /\ batch.errorCount = Cardinality(errIds)

\* a batch of two eligible ids, one of which failed
C13_Witness ==
    /\ batch.phase = "done"
    /\ Cardinality(batch.eligible) = 2
    /\ batch.okCount = 1
    /\ batch.errorCount = 1

\* C16: a publish appends the event to the buffer of every registered
\* connection that has room, leaves the buffer of a connection that is full
\* as it is (the event is dropped for that connection only), and is complete
\* in that one step whatever the state of the slow connection.
C16_FanOutSkipsOnlyTheSlowClient ==
    [][ op'[1] = "publish"
        => /\ \A c \in registry :
                 IF Len(outbox[c]) < OutboxCap
                 THEN outbox'[c] = Append(outbox[c], op'[2])
                 ELSE outbox'[c] = outbox[c]
           /\ \A c \in Clients \ registry : outbox'[c] = outbox[c]
           /\ eventSeq' = eventSeq + 1
           /\ registry' = registry
      ]_vars

\* every client connected, one of them with a full buffer of older events:
\* the other ones hold the event just published, the slow one does not
C16_Witness ==
    /\ op[1] = "publish"
    /\ registry = Clients
    /\ \E slow \in Clients :
          /\ slow < MaxClients
          /\ Len(outbox[slow]) = OutboxCap
          /\ \A i \in 1..Len(outbox[slow]) : outbox[slow][i].id < eventSeq
          /\ \A c \in Clients \ {slow} :
                outbox[c] # <<>> /\ outbox[c][Len(outbox[c])] = op[2]

\* C19: each of the four values is what the caller passed when the caller
\* passed one, and with nothing passed they are 30 s, 3 s, 10 attempts and 50
\* events.
C19_ConfigurableWithDefaults ==
    config # Unresolved
    => /\ given.heartbeatInterval # Unset
            => config.heartbeatInterval = given.heartbeatInterval
       /\ given.reconnectInterval # Unset
            => config.reconnectInterval = given.reconnectInterval
       /\ given.maxReconnectAttempts # Unset
            => config.maxReconnectAttempts = given.maxReconnectAttempts
       /\ given.bufferSize # Unset => config.bufferSize = given.bufferSize
       /\ given = NoOptions
            => config = [heartbeatInterval |-> 30000, reconnectInterval |-> 3000,
                         maxReconnectAttempts |-> 10, bufferSize |-> 50]

\* the error data the claim expects for each body
C20_ExpectedData(body) ==
    IF body = b_object THEN [kind |-> "object", text |-> <<"\"", "d", "\"", ":", "1">>]
    ELSE IF body = <<" ", "2">> THEN [kind |-> "number", text |-> <<"2">>]
    ELSE JsonNull

\* C20: a call whose response is not OK returns nothing and throws an
\* ApiError with the response's status and statusText, whose data is the
\* parsed JSON body, or null when the body does not parse.
C20_NotOkThrowsApiError ==
    (call # NoApiCall /\ call.response # NetworkFailure /\ ~Ok(call.response))
    => /\ call.outcome.kind = "throw"
       /\ call.outcome.error = "ApiError"
       /\ call.outcome.status = call.response.status
       /\ call.outcome.statusText = call.response.statusText
       /\ call.outcome.data = C20_ExpectedData(call.response.body)

\* a PUT answered 500 with an HTML page
C20_Witness ==
    /\ call.method = "PUT"
    /\ call.response.status = 500
    /\ call.response.body = b_html
    /\ call.outcome.kind = "throw"
    /\ call.outcome.data = JsonNull

\* C21: the mode is always one of manual, auto-excel and auto-sheets; the
\* first render has manual, and a mount that finds no valid stored value
\* keeps manual.
C21_ModeIsValidAndStartsManual ==
    /\ exportHook.mode \in {"manual", "auto-excel", "auto-sheets"}
    /\ exportHook.phase = "rendered" => exportHook.mode = "manual"
    /\ (op[1] = "exportEffect"
          /\ (~storage.present \/ storage.value \notin {"manual", "auto-excel", "auto-sheets"}))
       => exportHook.mode = "manual"

\* a mount that found "invalid-mode" stored
C21_Witness ==
    /\ op[1] = "exportEffect"
    /\ storage = StoredItem("invalid-mode")
    /\ exportHook.phase = "ready"
    /\ exportHook.mode = "manual"

\* C22: after updateMode(m) the mode is m and the stored value is m, and
\* every later mount has m once its effect has run.
C22_StoreThenLoadIsIdentity ==
    /\ op[1] = "updateMode"
       => (exportHook.mode = op[2] /\ storage.present /\ storage.value = op[2])
    /\ exportHook.saved # ""
       => /\ storage.present /\ storage.value = exportHook.saved
          /\ exportHook.phase = "ready" => exportHook.mode = exportHook.saved

\* a fresh mount after auto-sheets was saved by an earlier one
C22_Witness ==
    /\ op[1] = "exportEffect"
    /\ exportHook.saved = "auto-sheets"
    /\ exportHook.mode = "auto-sheets"

\* C23: a fetch event for a non-GET request or for a path under /api/ is
\* not answered by the worker: the page gets what the network has, never a
\* cached copy, the cache is not written, and the cache never holds a path
\* under /api/.
C23_ApiAndNonGetBypassTheCache ==
    [][ /\ (op'[1] = "fetch"
            /\ (swEvent'.request.method # "GET"
                \/ /\ Len(swEvent'.request.path) >= 5
                   /\ SubSeq(swEvent'.request.path, 1, 5) = <<"/", "a", "p", "i", "/">>))
           => /\ swCache' = swCache
              /\ ~swEvent'.handled
              /\ swEvent'.source # "cache"
              /\ swEvent'.net # "fail"
                   => (swEvent'.source = "network"
                       /\ swEvent'.version = origin[swEvent'.request.path])
        /\ \A p \in Paths : (Len(p) >= 5 /\ SubSeq(p, 1, 5) = <<"/", "a", "p", "i", "/">>)
                               => swCache'[p] = 0 ]_vars

\* a record read made after the records changed at the network
C23_Witness ==
    /\ op[1] = "fetch"
    /\ swEvent.request.method = "GET"
    /\ swEvent.request.path = p_records
    /\ swEvent.source = "network"
    /\ swEvent.version = 2
    /\ swCache[p_root] = 2

\* C24: once the hook is unmounted, or runs with enabled false, no step
\* creates a WebSocket and no reconnect timer is pending, whatever close
\* events arrive afterwards.
C24_NoReconnectAfterTeardown ==
    [][ (mounted' = "unmounted" \/ ~opts'.enabled)
        => (Len(sockets') = Len(sockets) /\ PendingTimers' = {}) ]_vars

\* C25: a heartbeat timer runs only while ws.current is open, at most one
\* runs at any time, and the close of one socket leaves the heartbeat of
\* another socket that is open running.
C25_HeartbeatFollowsTheOpenSocket ==
    /\ [](/\ RunningIntervals # {}
              => (wsCurrent # 0 /\ sockets[wsCurrent].readyState = "OPEN")
          /\ Cardinality(RunningIntervals) <= 1)
    /\ [][ (/\ op'[1] = "close"
            /\ RunningIntervals # {}
            /\ \E s \in 1..Len(sockets) : s # op'[2] /\ sockets[s].readyState = "OPEN")
           => RunningIntervals' # {} ]_vars

\* C26: among the rows the table shows, the ones held in the selection of
\* the records page are exactly the ones shown as checked.
C26_PageSelectionIsCheckedRows ==
    { id \in pageSelected : data[id] # "none" } = { id \in tableSelected : data[id] # "none" }

\* C27: a batch approve or batch reject request in flight never carries an
\* empty id list.
C27_BatchRequestHasIds ==
    inflight.kind \in {"approve-batch", "reject-batch"} => inflight.ids # {}

\* C28: the ids of the notifications in the buffer are pairwise distinct,
\* however often an event is delivered.
C28_BufferIdsAreDistinct ==
    \A i, j \in 1..Len(notifications) :
        i # j => notifications[i].id # notifications[j].id

\* C29: a message that is not valid JSON, or is JSON without a string type
\* field, changes neither the buffer, the toasts, the cached queries nor the
\* connection and its retry counter.
C29_UnparseableMessageChangesNothing ==
    [][ (op'[1] = "recv" /\ (op'[2].kind = "invalid" \/ ~op'[2].hasType))
        => UNCHANGED <<notifications, toastCalls, lastToast, stale, data, stats,
                       sockets, wsCurrent, isConnected, reconnectAttempts>> ]_vars

\* C30: the retry counter is within 0..maxReconnectAttempts in every state,
\* and only a successful open lowers it, to 0.
C30_CounterWithinMax ==
    /\ [](reconnectAttempts \in 0..opts.maxReconnectAttempts)
    /\ [][ reconnectAttempts' < reconnectAttempts
           => (op'[1] = "open" /\ reconnectAttempts' = 0) ]_vars

\* C30 (amended): the retry counter is at least 0 and never exceeds the
\* largest maxReconnectAttempts among the current render and the renders
\* whose connect created a socket (maxReconnectAttempts itself when the
\* option never changes), and only a successful open lowers it, to 0.
C30_CounterWithinLargestMax ==
    /\ [](/\ reconnectAttempts >= 0
          /\ \/ reconnectAttempts <= opts.maxReconnectAttempts
             \/ \E s \in 1..Len(sockets) :
                   reconnectAttempts <= sockets[s].opts.maxReconnectAttempts)
    /\ [][ reconnectAttempts' < reconnectAttempts
           => (op'[1] = "open" /\ reconnectAttempts' = 0) ]_vars

\* a close that used up the last attempt of its render
C30_Witness ==
    /\ op[1] = "close"
    /\ reconnectAttempts > 0
    /\ reconnectAttempts = sockets[op[2]].opts.maxReconnectAttempts

====
